---- MODULE Spec2Model ----
(***************************************************************************)
(* State-machine model of fuse-memfs: the in-memory file system of         *)
(* src/fs.js (the variant with inodes, extended attributes and hard links, *)
(* lines 469-991, the one module.exports ends up bound to).                *)
(*                                                                         *)
(* JavaScript objects live in two heaps, entryObj and inodeObj; an object  *)
(* reference is its index (0 is null/undefined).  Timestamps, uid and gid  *)
(* are left out: no operation reads them back except stat.                 *)
(***************************************************************************)
EXTENDS Integers, Sequences, FiniteSets, TLC

VARIABLES
    inodeObj,   \* heap of Inode objects (class Inode)
    entryObj,   \* heap of Entry objects (class Directory / class File)
    fds,        \* FileSystem.fds: descriptor records, Null for a cleared slot
    inodes,     \* FileSystem.inodes: the inode-number counter
    last        \* the last call that returned: [op, err, n, buf]

vars == <<inodeObj, entryObj, fds, inodes, last>>

----------------------------------------------------------------------------
(* Bounds of the model *)

\* BLOCK_SIZE of src/fs.js:639 (1024 * 1024), scaled down to a few bytes.
BLOCK_SIZE == 2
\* Entry objects ever allocated (the root included).
MaxEntries == 3
\* Slots of the descriptor table: in the descriptor-table specification,
\* in the name-space specification, in the hard-link specification.
MaxFds == 3
NsMaxFds == 1
LinkMaxFds == 2
\* Longest buffer handed to read and write, largest offset, largest
\* truncate size in the file-level specification.
MaxLen == 3
MaxOffset == 3
MaxSize == 5
\* How far below zero a link count may be driven (every rename takes one
\* off the renamed inode's count, see remove) before the run is cut.
MaxUnderflow == 0
\* Descriptor slots in the two adapter specifications.
OpsMaxFds == 1
OpsFdMaxFds == 2

----------------------------------------------------------------------------
(* Values *)

Null == [null |-> TRUE]
\* ++undefined: the number the root inode gets (see FileSystemInit).
NaN == -1
\* this.root: the address of the root entry in entryObj.
root == 1
\* First descriptor id: fds.length + 20.
FdBase == 20

OK == "OK"

Min(S) == CHOOSE x \in S : \A y \in S : x <= y
Max(S) == CHOOSE x \in S : \A y \in S : x >= y

\* Math.ceil(a / b) for a >= 0, b > 0
Ceil(a, b) == (a + b - 1) \div b

----------------------------------------------------------------------------
(* Paths: strings are sequences of one-character strings. *)

\* String.prototype.split('/'): the pieces between separators, empty ones kept.
RECURSIVE strSplit(_, _)
strSplit(str, cur) ==
    IF str = <<>> THEN <<cur>>
    ELSE IF Head(str) = "/" THEN <<cur>> \o strSplit(Tail(str), <<>>)
    ELSE strSplit(Tail(str), Append(cur, Head(str)))

notEmpty(s) == s # <<>>

\* split(path): path.split('/').filter(notEmpty)
split(path) == SelectSeq(strSplit(path, <<>>), notEmpty)

----------------------------------------------------------------------------
(* The state as one record, so that operations are functions on it. *)

Cur == [I |-> inodeObj, E |-> entryObj, fds |-> fds, inodes |-> inodes]

\* A mode word is the set of its bits: the type bits S_IFDIR and S_IFREG
\* (distinct single bits in the constants table) and the permission bits,
\* grouped as R (0o444), W (0o222) and X (0o111).  m | n is the union,
\* m & bit is non-zero when the bit is a member.
DirectoryMode == {"S_IFDIR", "R", "W", "X"}
FileMode == {"S_IFREG", "R", "W"}

\* new Inode(fs, mode, opts) with no opts.inode: ino is ++fs.inodes
Inode(ino, mode, size) ==
    [ino |-> ino, mode |-> mode, nlink |-> 1, entries |-> <<>>,
     blocks |-> <<>>, size |-> size]

\* new Entry(mode, opts): name, inode reference, attribute map (insertion
\* ordered sequence of <<name, value>>); cls is the JavaScript class.
Entry(cls, name, inode) ==
    [cls |-> cls, name |-> name, inode |-> inode, attributes |-> <<>>]

isDirectory(s, e) == "S_IFDIR" \in s.I[s.E[e].inode].mode
isFile(s, e) == "S_IFREG" \in s.I[s.E[e].inode].mode

Fail(s, err) == [s |-> s, err |-> err, n |-> 0, buf |-> <<>>]
Done(s, n) == [s |-> s, err |-> OK, n |-> n, buf |-> <<>>]

----------------------------------------------------------------------------
(* class Directory *)

\* Directory.get(name): first child with that name, 0 when there is none
get(s, d, name) ==
    LET es == s.I[s.E[d].inode].entries
        hit == {k \in 1..Len(es) : s.E[es[k]].name = name}
    IN IF hit = {} THEN 0 ELSE es[Min(hit)]

exists(s, d, name) == get(s, d, name) # 0

isEmpty(s, d) == Len(s.I[s.E[d].inode].entries) = 0

\* Directory.push(entry)
push(s, d, e) ==
    LET di == s.E[d].inode
    IN [s EXCEPT !.I[di].entries = Append(@, e)]

\* Array.prototype.splice(i, 1)
Splice(seq, i) == SubSeq(seq, 1, i - 1) \o SubSeq(seq, i + 1, Len(seq))

\* Directory.remove(entry): indexOf, splice, entry.inode.nlink--
remove(s, d, e) ==
    LET di == s.E[d].inode
        es == s.I[di].entries
        hit == {k \in 1..Len(es) : es[k] = e}
    IN IF hit = {} THEN s
       ELSE LET s1 == [s EXCEPT !.I[di].entries = Splice(@, Min(hit))]
            IN [s1 EXCEPT !.I[s.E[e].inode].nlink = @ - 1]

\* new Directory({ fs, name }) / new File({ fs, name, mode }) pushed on d:
\* a fresh inode numbered ++fs.inodes
newEntry(s, d, cls, name) ==
    LET ino == s.inodes + 1
        ia == Len(s.I) + 1
        ea == Len(s.E) + 1
        node == IF cls = "Directory" THEN Inode(ino, DirectoryMode, 512)
                ELSE Inode(ino, FileMode, 0)
        s1 == [s EXCEPT !.I = Append(@, node),
                        !.E = Append(@, Entry(cls, name, ia)),
                        !.inodes = ino]
    IN [s |-> push(s1, d, ea), e |-> ea]

\* reset as it would be if it kept the size: blocks dropped only
reset_keepsSize(s, e) ==
    LET i == s.E[e].inode
    IN [s EXCEPT !.I[i].blocks = <<>>, !.I[i].entries = <<>>]

\* Entry.reset()
reset(s, e) ==
    LET i == s.E[e].inode
    IN [s EXCEPT !.I[i].blocks = <<>>, !.I[i].size = 0, !.I[i].entries = <<>>]

\* Directory.mkdir(name)
Directory_mkdir(s, d, name) ==
    IF exists(s, d, name) THEN Fail(s, "EEXIST")
    ELSE Done(newEntry(s, d, "Directory", name).s, 0)

\* Directory.create(name, mode): [s, e]
Directory_create(s, d, name) ==
    LET ex == get(s, d, name)
    IN IF ex # 0 THEN [s |-> reset(s, ex), e |-> ex]
       ELSE newEntry(s, d, "File", name)

\* Directory.rmdir(name)
Directory_rmdir(s, d, name) ==
    LET ex == get(s, d, name)
    IN IF ex = 0 THEN Fail(s, "ENOENT")
       ELSE IF ~isDirectory(s, ex) THEN Fail(s, "ENOTDIR")
       ELSE IF ~isEmpty(s, ex) THEN Fail(s, "ENOTEMPTY")
       ELSE Done(remove(s, d, ex), 0)

\* Directory.unlink(name)
Directory_unlink(s, d, name) ==
    LET ex == get(s, d, name)
    IN IF ex = 0 THEN Fail(s, "ENOENT")
       ELSE IF isDirectory(s, ex) THEN Fail(s, "EPERM")
       ELSE Done(remove(s, d, ex), 0)

----------------------------------------------------------------------------
(* Buffers: sequences of bytes.  Untouched marks a byte of the caller's    *)
(* buffer that a read did not write.                                       *)

Untouched == 0 - 1

Zeros(n) == [k \in 1..n |-> 0]

\* Buffer.alloc(BLOCK_SIZE)
alloc == Zeros(BLOCK_SIZE)

\* Buffer.prototype.slice(a, b): negative indexes count from the end, both
\* are clamped to the buffer, an end before the start gives the empty buffer
SliceIdx(n, a) == IF a < 0 THEN (IF n + a < 0 THEN 0 ELSE n + a)
                  ELSE (IF a > n THEN n ELSE a)

Slice(buf, a, b) ==
    LET lo == SliceIdx(Len(buf), a)
        hi == SliceIdx(Len(buf), b)
    IN IF hi <= lo THEN <<>> ELSE SubSeq(buf, lo + 1, hi)

\* src.copy(dst.slice(at)): min(src.length, dst.length - at) bytes of src
\* land in dst from index at (0-based)
CopyInto(dst, at, src) ==
    LET room == IF Len(dst) > at THEN Len(dst) - at ELSE 0
        c == IF Len(src) < room THEN Len(src) ELSE room
    IN [k \in 1..Len(dst) |->
          IF k > at /\ k <= at + c THEN src[k - at] ELSE dst[k]]

\* this.inode.blocks[i] of a sparse array (i is 0-based): <<>> when the
\* index is a hole or beyond the array
blockAt(blocks, i) == IF i + 1 <= Len(blocks) THEN blocks[i + 1] ELSE <<>>

\* this.inode.blocks[i] = blk: the array grows, leaving holes
setBlock(blocks, i, blk) ==
    [k \in 1..(IF i + 1 > Len(blocks) THEN i + 1 ELSE Len(blocks)) |->
        IF k = i + 1 THEN blk
        ELSE IF k <= Len(blocks) THEN blocks[k] ELSE <<>>]

----------------------------------------------------------------------------
(* class File: the operations act on an inode record f *)

\* truncate as it would be if it kept every block
File_truncate_keepsBlocks(f, size) == [f EXCEPT !.size = size]

\* File.truncate(size)
File_truncate(f, size) ==
    LET cnt == Ceil(size, BLOCK_SIZE)
    IN [f EXCEPT !.size = size,
                 !.blocks = SubSeq(@, 1, IF cnt < Len(@) THEN cnt ELSE Len(@))]

\* The while loop of File.read.  Result: [hang, start, buffer].  An
\* iteration whose block is cut to nothing by the first slice leaves start
\* and offset as they are, and so does every later one (the end index only
\* gets smaller): the loop never exits, reported as hang.
RECURSIVE readLoop(_, _, _, _, _, _)
readLoop(f, i, o, start, offset, buffer) ==
    IF ~(start < Len(buffer) /\ offset < f.size)
    THEN [hang |-> FALSE, start |-> start, buffer |-> buffer]
    ELSE LET b0 == blockAt(f.blocks, i)
             blk == IF b0 = <<>> THEN alloc ELSE b0
             i1 == i + 1
             blk1 == IF i1 * BLOCK_SIZE + Len(blk) > f.size
                     THEN Slice(blk, 0, f.size - i1 * BLOCK_SIZE)
                     ELSE blk
             blk2 == IF o # 0 THEN Slice(blk1, o, Len(blk1)) ELSE blk1
         IN IF Len(blk1) = 0
            THEN [hang |-> TRUE, start |-> start, buffer |-> buffer]
            ELSE readLoop(f, i1, 0, start + Len(blk2), offset + Len(blk2),
                          CopyInto(buffer, start, blk2))

\* File.read(offset, buffer): [hang, n, buffer]
File_read(f, offset, buffer) ==
    LET r == readLoop(f, offset \div BLOCK_SIZE, offset % BLOCK_SIZE, 0,
                      offset, buffer)
    IN [hang |-> r.hang,
        n |-> IF Len(buffer) < r.start THEN Len(buffer) ELSE r.start,
        buffer |-> r.buffer]

\* The while loop of File.write.  Result: [f, start].
RECURSIVE writeLoop(_, _, _, _, _, _)
writeLoop(f, i, o, start, offset, buffer) ==
    IF ~(start < Len(buffer) /\ offset < f.size)
    THEN [f |-> f, start |-> start]
    ELSE LET f1 == IF blockAt(f.blocks, i) = <<>>
                   THEN [f EXCEPT !.blocks = setBlock(@, i, alloc)]
                   ELSE f
             whole == blockAt(f1.blocks, i)
             view == Len(whole) - SliceIdx(Len(whole), o)
             data == SubSeq(buffer, start + 1, Len(buffer))
             f2 == [f1 EXCEPT !.blocks[i + 1] =
                       CopyInto(whole, SliceIdx(Len(whole), o), data)]
         IN writeLoop(f2, i + 1, 0, start + view, offset + view, buffer)

\* File.write(offset, buffer): [f, n]
File_write(f, offset, buffer) ==
    LET f0 == IF offset + Len(buffer) > f.size
              THEN [f EXCEPT !.size = offset + Len(buffer)]
              ELSE f
        r == writeLoop(f0, offset \div BLOCK_SIZE, offset % BLOCK_SIZE, 0,
                       offset, buffer)
    IN [f |-> r.f,
        n |-> IF Len(buffer) < r.start THEN Len(buffer) ELSE r.start]

----------------------------------------------------------------------------
(* class FileDescriptor *)

\* An open flag, decoded: acc is n & O_ACCMODE, the rest are the bits
\* O_APPEND, O_EXCL, O_CREAT.
Flag(acc, append, excl, creat) ==
    [acc |-> acc, append |-> append, excl |-> excl, creat |-> creat]

\* new FileDescriptor(flag, id)
FileDescriptor(flag, id) ==
    [file |-> 0, id |-> id,
     readable |-> flag.acc \in {"O_RDONLY", "O_RDWR"},
     writable |-> flag.acc \in {"O_WRONLY", "O_RDWR"},
     appending |-> flag.append, exclusive |-> flag.excl,
     creating |-> flag.creat, position |-> 0]

----------------------------------------------------------------------------
(* class FileSystem *)

\* new FileSystem(): the root Directory is built while this.inodes is still
\* undefined, so its inode number is ++undefined; then this.inodes = 0.
FileSystemInit ==
    [I |-> <<Inode(NaN, DirectoryMode, 512)>>,
     E |-> <<Entry("Directory", <<>>, 1)>>,
     fds |-> <<>>,
     inodes |-> 0]

\* lookup as it would be without the test that cur is a directory
RECURSIVE lookupFrom_anyEntry(_, _, _)
lookupFrom_anyEntry(s, cur, parts) ==
    IF parts = <<>> THEN [err |-> OK, e |-> cur]
    ELSE LET nx == get(s, cur, Head(parts))
         IN IF nx = 0 THEN [err |-> "ENOENT", e |-> 0]
            ELSE lookupFrom_anyEntry(s, nx, Tail(parts))

\* FileSystem.lookup(path): [err, e], walking the parts from cur
RECURSIVE lookupFrom(_, _, _)
lookupFrom(s, cur, parts) ==
    IF parts = <<>> THEN [err |-> OK, e |-> cur]
    ELSE IF ~isDirectory(s, cur) THEN [err |-> "ENOTDIR", e |-> 0]
    ELSE LET nx == get(s, cur, Head(parts))
         IN IF nx = 0 THEN [err |-> "ENOENT", e |-> 0]
            ELSE lookupFrom(s, nx, Tail(parts))

lookup(s, path) == lookupFrom(s, root, split(path))

\* FileSystem.lookupFd(fd): the descriptor's slot (1-based), 0 for EBADF
lookupFd(s, fd) ==
    LET k == fd - FdBase + 1
    IN IF k >= 1 /\ k <= Len(s.fds) /\ s.fds[k] # Null THEN k ELSE 0

\* FileSystem._parentDir(path): [err, parent, name]
parentDir(s, path) ==
    LET parts == split(path)
    IN IF parts = <<>> THEN [err |-> "EINVAL", parent |-> 0, name |-> <<>>]
       ELSE LET p == parts[Len(parts)]
                dir == lookupFrom(s, root, SubSeq(parts, 1, Len(parts) - 1))
            IN IF dir.err # OK
               THEN [err |-> dir.err, parent |-> 0, name |-> p]
               ELSE IF ~isDirectory(s, dir.e)
               THEN [err |-> "ENOTDIR", parent |-> 0, name |-> p]
               ELSE [err |-> OK, parent |-> dir.e, name |-> p]

\* FileSystem.link(from, to).  fe.nlink++ increments a property of the
\* Entry object, which has none (the count lives in fe.inode.nlink): the
\* entry gets nlink = NaN, which nothing reads, and the inode is untouched.
link(s, from, to) ==
    LET f == parentDir(s, from)
        t == parentDir(s, to)
    IN IF f.err # OK THEN Fail(s, f.err)
       ELSE IF t.err # OK THEN Fail(s, t.err)
       ELSE LET fe == get(s, f.parent, f.name)
            IN IF fe = 0 THEN Fail(s, "ENOENT")
               ELSE IF isDirectory(s, fe) THEN Fail(s, "EISDIR")
               ELSE IF get(s, t.parent, t.name) # 0 THEN Fail(s, "EEXIST")
               ELSE LET ea == Len(s.E) + 1
                        s1 == [s EXCEPT !.E = Append(@,
                                  Entry("File", t.name, s.E[fe].inode))]
                    IN Done(push(s1, t.parent, ea), 0)

\* rename as it would be without the removal of the entry bound at to
rename_keepsTarget(s, from, to) ==
    LET f == parentDir(s, from)
        t == parentDir(s, to)
    IN IF f.err # OK THEN Fail(s, f.err)
       ELSE IF t.err # OK THEN Fail(s, t.err)
       ELSE LET fe == get(s, f.parent, f.name)
                te == get(s, t.parent, t.name)
            IN IF fe = 0 THEN Fail(s, "ENOENT")
               ELSE IF te # 0 /\ isDirectory(s, te) /\ ~isDirectory(s, fe)
               THEN Fail(s, "EISDIR")
               ELSE IF te # 0 /\ isDirectory(s, fe) /\ ~isDirectory(s, te)
               THEN Fail(s, "ENOTDIR")
               ELSE IF te # 0 /\ isDirectory(s, fe) /\ isDirectory(s, te)
                       /\ ~isEmpty(s, te)
               THEN Fail(s, "ENOTEMPTY")
               ELSE LET s2 == [s EXCEPT !.E[fe].name = t.name]
                        s3 == remove(s2, f.parent, fe)
                    IN Done(push(s3, t.parent, fe), 0)

\* rename as it would be with the entry bound at to removed before the
\* type checks
rename_removesFirst(s, from, to) ==
    LET f == parentDir(s, from)
        t == parentDir(s, to)
    IN IF f.err # OK THEN Fail(s, f.err)
       ELSE IF t.err # OK THEN Fail(s, t.err)
       ELSE LET fe == get(s, f.parent, f.name)
                te == get(s, t.parent, t.name)
                s1 == IF te # 0 THEN remove(s, t.parent, te) ELSE s
            IN IF fe = 0 THEN Fail(s, "ENOENT")
               ELSE IF te # 0 /\ isDirectory(s, te) /\ ~isDirectory(s, fe)
               THEN Fail(s1, "EISDIR")
               ELSE IF te # 0 /\ isDirectory(s, fe) /\ ~isDirectory(s, te)
               THEN Fail(s1, "ENOTDIR")
               ELSE IF te # 0 /\ isDirectory(s, fe) /\ isDirectory(s, te)
                       /\ ~isEmpty(s, te)
               THEN Fail(s1, "ENOTEMPTY")
               ELSE LET s2 == [s1 EXCEPT !.E[fe].name = t.name]
                        s3 == remove(s2, f.parent, fe)
                    IN Done(push(s3, t.parent, fe), 0)

\* FileSystem.rename(from, to)
rename(s, from, to) ==
    LET f == parentDir(s, from)
        t == parentDir(s, to)
    IN IF f.err # OK THEN Fail(s, f.err)
       ELSE IF t.err # OK THEN Fail(s, t.err)
       ELSE LET fe == get(s, f.parent, f.name)
                te == get(s, t.parent, t.name)
            IN IF fe = 0 THEN Fail(s, "ENOENT")
               ELSE IF te # 0 /\ isDirectory(s, te) /\ ~isDirectory(s, fe)
               THEN Fail(s, "EISDIR")
               ELSE IF te # 0 /\ isDirectory(s, fe) /\ ~isDirectory(s, te)
               THEN Fail(s, "ENOTDIR")
               ELSE IF te # 0 /\ isDirectory(s, fe) /\ isDirectory(s, te)
                       /\ ~isEmpty(s, te)
               THEN Fail(s, "ENOTEMPTY")
               ELSE LET s1 == IF te # 0 THEN remove(s, t.parent, te) ELSE s
                        s2 == [s1 EXCEPT !.E[fe].name = t.name]
                        s3 == remove(s2, f.parent, fe)
                    IN Done(push(s3, t.parent, fe), 0)

\* Entry.stat(): the fields the claims read
Stat(s, e) ==
    LET i == s.I[s.E[e].inode]
    IN [size |-> i.size, nlink |-> i.nlink, ino |-> i.ino, mode |-> i.mode]

NoStat == [size |-> 0, nlink |-> 0, ino |-> 0, mode |-> {}]

\* FileSystem.stat(path): [err, st]
stat(s, path) ==
    LET l == lookup(s, path)
    IN IF l.err # OK THEN [err |-> l.err, st |-> NoStat]
       ELSE [err |-> OK, st |-> Stat(s, l.e)]

\* FileSystem.fstat(fd): [err, st]
fstat(s, fd) ==
    LET k == lookupFd(s, fd)
    IN IF k = 0 THEN [err |-> "EBADF", st |-> NoStat]
       ELSE [err |-> OK, st |-> Stat(s, s.fds[k].file)]

\* entry.truncate(size): only class File has the method
Entry_truncate(s, e, size) ==
    IF s.E[e].cls # "File" THEN Fail(s, "TypeError")
    ELSE Done([s EXCEPT !.I[s.E[e].inode] = File_truncate(@, size)], 0)

\* FileSystem.truncate(path, size)
truncate(s, path, size) ==
    LET l == lookup(s, path)
    IN IF l.err # OK THEN Fail(s, l.err) ELSE Entry_truncate(s, l.e, size)

\* FileSystem.ftruncate(fd, size)
ftruncate(s, fd, size) ==
    LET k == lookupFd(s, fd)
    IN IF k = 0 THEN Fail(s, "EBADF")
       ELSE Entry_truncate(s, s.fds[k].file, size)

\* open as it would be with the reset done before the checks
open_resetsFirst(s, path, flag) ==
    LET desc == FileDescriptor(flag, Len(s.fds) + FdBase)
        pd == parentDir(s, path)
    IN IF pd.err # OK THEN Fail(s, pd.err)
       ELSE LET file == get(s, pd.parent, pd.name)
                s1 == IF file # 0 /\ ~desc.appending /\ desc.writable
                      THEN reset(s, file) ELSE s
            IN IF file # 0 /\ ~isFile(s, file) THEN Fail(s1, "EPERM")
               ELSE IF desc.exclusive /\ file # 0 THEN Fail(s1, "EEXIST")
               ELSE IF file = 0 /\ (~desc.creating
                                      \/ (desc.readable /\ ~desc.writable))
               THEN Fail(s1, "ENOENT")
               ELSE LET c == IF file = 0
                             THEN Directory_create(s1, pd.parent, pd.name)
                             ELSE [s |-> s1, e |-> file]
                        pos == IF desc.appending
                               THEN c.s.I[c.s.E[c.e].inode].size ELSE 0
                        d1 == [desc EXCEPT !.position = pos, !.file = c.e]
                    IN Done([c.s EXCEPT !.fds = Append(@, d1)], desc.id)

\* FileSystem.open(path, flag, mode)
open(s, path, flag) ==
    LET desc == FileDescriptor(flag, Len(s.fds) + FdBase)
        pd == parentDir(s, path)
    IN IF pd.err # OK THEN Fail(s, pd.err)
       ELSE LET file == get(s, pd.parent, pd.name)
            IN IF file # 0 /\ ~isFile(s, file) THEN Fail(s, "EPERM")
               ELSE IF desc.exclusive /\ file # 0 THEN Fail(s, "EEXIST")
               ELSE IF desc.readable /\ ~desc.writable /\ file = 0
               THEN Fail(s, "ENOENT")
               ELSE IF file = 0 /\ ~desc.creating THEN Fail(s, "ENOENT")
               ELSE LET s1 == IF file # 0 /\ ~desc.appending /\ desc.writable
                              THEN reset(s, file) ELSE s
                        c == IF file = 0
                             THEN Directory_create(s1, pd.parent, pd.name)
                             ELSE [s |-> s1, e |-> file]
                        pos == IF desc.appending
                               THEN c.s.I[c.s.E[c.e].inode].size ELSE 0
                        d1 == [desc EXCEPT !.position = pos, !.file = c.e]
                    IN Done([c.s EXCEPT !.fds = Append(@, d1)], desc.id)

\* while (this.fds.length && !this.fds[this.fds.length - 1]) this.fds.pop()
RECURSIVE popNulls(_)
popNulls(t) ==
    IF Len(t) > 0 /\ t[Len(t)] = Null THEN popNulls(SubSeq(t, 1, Len(t) - 1))
    ELSE t

\* close as it would be with the slot spliced out of the table
close_splices(s, fd) ==
    LET k == lookupFd(s, fd)
    IN IF k = 0 THEN Fail(s, "EBADF")
       ELSE Done([s EXCEPT !.fds = Splice(@, k)], 0)

\* close as it would be with an if in place of the while: one pop at most
close_popsOnce(s, fd) ==
    LET k == lookupFd(s, fd)
        t == [s.fds EXCEPT ![k] = Null]
    IN IF k = 0 THEN Fail(s, "EBADF")
       ELSE Done([s EXCEPT !.fds = IF t[Len(t)] = Null
                                   THEN SubSeq(t, 1, Len(t) - 1) ELSE t], 0)

\* close as it would be if it left the descriptor in its slot
close_keepsSlot(s, fd) ==
    LET k == lookupFd(s, fd)
    IN IF k = 0 THEN Fail(s, "EBADF")
       ELSE Done([s EXCEPT !.fds = popNulls(@)], 0)

\* FileSystem.close(fd)
close(s, fd) ==
    LET k == lookupFd(s, fd)
    IN IF k = 0 THEN Fail(s, "EBADF")
       ELSE Done([s EXCEPT !.fds = popNulls([@ EXCEPT ![k] = Null])], 0)

\* FileSystem.read(fd, buf, 0, length, position): buf is the caller's
\* buffer, pos is <<>> when no position is passed and <<p>> otherwise.
\* Result: [s, err, n, buf]; err is "DIVERGES" when File.read never returns.
read(s, fd, buf, pos) ==
    LET k == lookupFd(s, fd)
    IN IF k = 0 THEN Fail(s, "EBADF")
       ELSE LET p == IF pos # <<>> THEN pos[1] ELSE s.fds[k].position
                r == File_read(s.I[s.E[s.fds[k].file].inode], p, buf)
            IN IF r.hang
               THEN [s |-> [s EXCEPT !.fds[k].position = p],
                     err |-> "DIVERGES", n |-> 0, buf |-> r.buffer]
               ELSE [s |-> [s EXCEPT !.fds[k].position = p + r.n],
                     err |-> OK, n |-> r.n, buf |-> r.buffer]

\* FileSystem.write(fd, buf, 0, length, position)
write(s, fd, buf, pos) ==
    LET k == lookupFd(s, fd)
    IN IF k = 0 THEN Fail(s, "EBADF")
       ELSE LET p == IF pos # <<>> THEN pos[1] ELSE s.fds[k].position
                i == s.E[s.fds[k].file].inode
                w == File_write(s.I[i], p, buf)
            IN Done([s EXCEPT !.I[i] = w.f,
                              !.fds[k].position = p + Len(buf)], Len(buf))

\* FileSystem.rmdir(path)
rmdir(s, path) ==
    LET pd == parentDir(s, path)
    IN IF pd.err # OK THEN Fail(s, pd.err)
       ELSE Directory_rmdir(s, pd.parent, pd.name)

\* FileSystem.unlink(path)
unlink(s, path) ==
    LET pd == parentDir(s, path)
    IN IF pd.err # OK THEN Fail(s, pd.err)
       ELSE Directory_unlink(s, pd.parent, pd.name)

\* FileSystem.mkdir(path, mode)
mkdir(s, path) ==
    LET pd == parentDir(s, path)
    IN IF pd.err # OK THEN Fail(s, pd.err)
       ELSE Directory_mkdir(s, pd.parent, pd.name)

\* Buffer.from(value) for an array of numbers: a copy, each entry & 255
BufferFrom(value) == [k \in 1..Len(value) |-> value[k] % 256]

\* The index of name in the attribute map, 0 when it has no such key
attrIndex(attrs, name) ==
    LET hit == {k \in 1..Len(attrs) : attrs[k][1] = name}
    IN IF hit = {} THEN 0 ELSE Min(hit)

\* Map.prototype.set as it would be if every set added a key
setAttribute_appends(attrs, name, val) == Append(attrs, <<name, val>>)

\* Entry.setAttribute(name, val): Map.prototype.set keeps the place of a
\* key the map has and puts a new key last
setAttribute(attrs, name, val) ==
    IF attrIndex(attrs, name) = 0 THEN Append(attrs, <<name, val>>)
    ELSE [attrs EXCEPT ![attrIndex(attrs, name)] = <<name, val>>]

\* Entry.removeAttribute(name): Map.prototype.delete
removeAttribute(attrs, name) ==
    IF attrIndex(attrs, name) = 0 THEN attrs
    ELSE Splice(attrs, attrIndex(attrs, name))

\* FileSystem.setxattr(path, name, value)
setxattr(s, path, name, value) ==
    LET l == lookup(s, path)
    IN IF l.err # OK THEN Fail(s, l.err)
       ELSE Done([s EXCEPT !.E[l.e].attributes =
                      setAttribute(@, name, BufferFrom(value))], 0)

\* FileSystem.getxattr(path, name): buf is <<value>>, or <<>> for undefined
getxattr(s, path, name) ==
    LET l == lookup(s, path)
        attrs == s.E[l.e].attributes
    IN IF l.err # OK THEN Fail(s, l.err)
       ELSE [s |-> s, err |-> OK, n |-> 0,
             buf |-> IF attrIndex(attrs, name) = 0 THEN <<>>
                     ELSE <<attrs[attrIndex(attrs, name)][2]>>]

\* FileSystem.listxattr(path): buf is the list of keys
listxattr(s, path) ==
    LET l == lookup(s, path)
        attrs == s.E[l.e].attributes
    IN IF l.err # OK THEN Fail(s, l.err)
       ELSE [s |-> s, err |-> OK, n |-> 0,
             buf |-> [k \in 1..Len(attrs) |-> attrs[k][1]]]

\* FileSystem.removexattr(path, name)
removexattr(s, path, name) ==
    LET l == lookup(s, path)
    IN IF l.err # OK THEN Fail(s, l.err)
       ELSE Done([s EXCEPT !.E[l.e].attributes = removeAttribute(@, name)], 0)

\* FileSystem.readdir(path): the number of names listed is the result
readdir(s, path) ==
    LET l == lookup(s, path)
    IN IF l.err # OK THEN Fail(s, l.err)
       ELSE IF ~isDirectory(s, l.e) THEN Fail(s, "ENOTDIR")
       ELSE Done(s, Len(s.I[s.E[l.e].inode].entries))

\* Entry.chmod(mode)
Entry_chmod(s, e, mode) ==
    LET mask == IF isDirectory(s, e) THEN {"S_IFDIR"}
                ELSE IF isFile(s, e) THEN {"S_IFREG"}
                ELSE {}
    IN [s EXCEPT !.I[s.E[e].inode].mode = mode \cup mask]

\* FileSystem.chmod(path, mode)
chmod(s, path, mode) ==
    LET l == lookup(s, path)
    IN IF l.err # OK THEN Fail(s, l.err)
       ELSE Done(Entry_chmod(s, l.e, mode), 0)

----------------------------------------------------------------------------
(* Inputs *)

\* '/a', '/b', '/a/b'
PathA == <<"/", "a">>
PathB == <<"/", "b">>
PathAB == <<"/", "a", "/", "b">>
Paths == {PathA, PathB, PathAB}

O_RDONLY == Flag("O_RDONLY", FALSE, FALSE, FALSE)
O_RDWR_CREAT == Flag("O_RDWR", FALSE, FALSE, TRUE)
OpenFlags == {O_RDONLY, O_RDWR_CREAT}

\* '/', '' and '/a//b/'
PathRoot == <<"/">>
PathEmpty == <<>>
PathSlashes == <<"/", "a", "/", "/", "b", "/">>
OpsPaths == Paths \cup {PathRoot, PathSlashes}
\* '/a/c'
PathAC == <<"/", "a", "/", "c">>

\* Every flag word: an access mode and the bits O_APPEND, O_EXCL, O_CREAT
AllFlags ==
    {Flag(acc, ap, ex, cr) : acc \in {"O_RDONLY", "O_WRONLY", "O_RDWR"},
                             ap \in BOOLEAN, ex \in BOOLEAN, cr \in BOOLEAN}

O_WRONLY_CREAT_EXCL == Flag("O_WRONLY", FALSE, TRUE, TRUE)
O_WRONLY_APPEND == Flag("O_WRONLY", TRUE, FALSE, FALSE)
OpsFlags == {O_RDONLY, O_WRONLY_CREAT_EXCL, O_WRONLY_APPEND}

FdIds == FdBase..(FdBase + MaxFds - 1)

\* Buffers written and lengths read by the whole-system specification
NsBufs == {<<1>>, <<1, 2>>}
NsLens == {1, 2}

\* The buffers written by the one-file specification: for each length and
\* first byte, the bytes 1 and 2 in turn
Pattern(len, first) == [k \in 1..len |-> IF (k + first) % 2 = 0 THEN 1 ELSE 2]
FileBufs == {Pattern(len, first) : len \in 0..MaxLen, first \in {1, 2}}

\* The caller's buffer of a read of len bytes
ReadBuf(len) == [k \in 1..len |-> Untouched]

----------------------------------------------------------------------------
(* The state machine: one action per FileSystem method.  A call that never *)
(* returns (last.err = "DIVERGES") is the end of the run: the process is   *)
(* single-threaded.                                                        *)

Running == last.err # "DIVERGES"

\* What the caller got back from a call that returned, or that it never
\* will
Outcome(op, r) == [op |-> op, err |-> r.err, n |-> r.n, buf |-> r.buf]

\* The call ended as r: the state becomes r.s.  A call that throws leaves
\* the record of the last returned call as it is.
Apply(op, r) ==
    /\ Running
    /\ inodeObj' = r.s.I
    /\ entryObj' = r.s.E
    /\ fds' = r.s.fds
    /\ inodes' = r.s.inodes
    /\ last' = IF r.err \in {OK, "DIVERGES"} THEN Outcome(op, r) ELSE last

\* The bounds on a state: objects allocated, descriptor slots, link counts
Within(maxFds) ==
    /\ Len(entryObj) <= MaxEntries
    /\ Len(fds) <= maxFds
    /\ \A i \in 1..Len(inodeObj) : inodeObj[i].nlink >= 0 - MaxUnderflow

Init ==
    /\ inodeObj = FileSystemInit.I
    /\ entryObj = FileSystemInit.E
    /\ fds = FileSystemInit.fds
    /\ inodes = FileSystemInit.inodes
    /\ last = Outcome("new", Done(FileSystemInit, 0))

Mkdir(path) == Apply("mkdir", mkdir(Cur, path))
Rmdir(path) == Apply("rmdir", rmdir(Cur, path))
Unlink(path) == Apply("unlink", unlink(Cur, path))
Link(from, to) == Apply("link", link(Cur, from, to))
Rename(from, to) == Apply("rename", rename(Cur, from, to))
Open(path, flag) == Apply("open", open(Cur, path, flag))
Close(fd) == Apply("close", close(Cur, fd))
Read(fd, len, pos) == Apply("read", read(Cur, fd, ReadBuf(len), pos))
Write(fd, buf, pos) == Apply("write", write(Cur, fd, buf, pos))
Truncate(path, size) == Apply("truncate", truncate(Cur, path, size))
Ftruncate(fd, size) == Apply("ftruncate", ftruncate(Cur, fd, size))
Fstat(fd) ==
    LET r == fstat(Cur, fd)
    IN Apply("fstat", [s |-> Cur, err |-> r.err, n |-> r.st.size, buf |-> <<>>])

\* The name space: directories, files, hard links and renames over '/a',
\* '/b' and '/a/b'; files are made by open, no data is moved
InNs == Within(NsMaxFds)'

Next ==
    \/ \E p \in Paths : Mkdir(p) /\ InNs
    \/ \E p \in Paths : Rmdir(p) /\ InNs
    \/ \E p \in Paths : Unlink(p) /\ InNs
    \/ \E p, q \in Paths : Link(p, q) /\ InNs
    \/ \E p, q \in Paths : Rename(p, q) /\ InNs
    \/ \E p \in Paths, fl \in OpenFlags : Open(p, fl) /\ InNs
    \/ \E fd \in FdIds : Close(fd) /\ InNs

Spec == Init /\ [][Next]_vars

\* The descriptor table: opens and closes of '/a' and '/b' in any order,
\* and calls on the open descriptors
InFd == Within(MaxFds)'

NextFd ==
    \/ \E p \in {PathA, PathB}, fl \in OpenFlags : Open(p, fl) /\ InFd
    \/ \E fd \in FdIds : Close(fd) /\ InFd
    \/ \E fd \in FdIds : Read(fd, 1, <<0>>) /\ InFd
    \/ \E fd \in FdIds : Write(fd, <<1>>, <<0>>) /\ InFd
    \/ \E fd \in FdIds : Fstat(fd) /\ InFd

SpecFd == Init /\ [][NextFd]_vars

\* Hard links and open descriptors: data written through one name or
\* descriptor and read through another, while names come and go
InLink == Within(LinkMaxFds)'

NextLink ==
    \/ \E p \in {PathA, PathB}, fl \in OpenFlags : Open(p, fl) /\ InLink
    \/ \E fd \in FdIds : Close(fd) /\ InLink
    \/ \E fd \in FdIds, len \in NsLens : Read(fd, len, <<0>>) /\ InLink
    \/ \E fd \in FdIds, b \in NsBufs : Write(fd, b, <<0>>) /\ InLink
    \/ \E p, q \in {PathA, PathB} : Link(p, q) /\ InLink
    \/ \E p, q \in {PathA, PathB} : Rename(p, q) /\ InLink
    \/ \E p \in {PathA, PathB} : Unlink(p) /\ InLink

SpecLink == Init /\ [][NextLink]_vars

\* One file, '/a', behind descriptor 20: reads, writes and truncates over
\* several blocks; closed and opened again, which resets it
NextFile ==
    \/ (fds = <<>> /\ Open(PathA, O_RDWR_CREAT))
    \/ Close(FdBase)
    \/ \E b \in FileBufs, o \in 0..MaxOffset : Write(FdBase, b, <<o>>)
    \/ \E len \in 0..(MaxSize + 1), o \in 0..MaxOffset : Read(FdBase, len, <<o>>)
    \/ \E n \in 0..MaxSize : Truncate(PathA, n)
    \/ \E n \in 0..MaxSize : Ftruncate(FdBase, n)

SpecFile == Init /\ [][NextFile]_vars

----------------------------------------------------------------------------
(* The adapter (src/unnamed/part_000): every operation calls the file      *)
(* system inside try/catch and hands the outcome to the callback.          *)

\* err.errno of the errors createError makes; a TypeError has none
\* (undefined, the empty sequence here)
errno(err) ==
    CASE err = "EPERM" -> <<0 - 1>>
      [] err = "ENOENT" -> <<0 - 2>>
      [] err = "EBADF" -> <<0 - 9>>
      [] err = "EEXIST" -> <<0 - 17>>
      [] err = "ENOTDIR" -> <<0 - 20>>
      [] err = "EISDIR" -> <<0 - 21>>
      [] err = "EINVAL" -> <<0 - 23>>
      [] err = "ENOTEMPTY" -> <<0 - 66>>
      [] OTHER -> <<>>

\* The first arguments of the callback invocations of one adapter
\* operation whose call into the file system ended as r: cb(0, ...) or
\* cb(count) when it returned, cb(err.errno) when it threw, no invocation
\* when it never returned
callbacks(op, r) ==
    IF r.err = "DIVERGES" THEN <<>>
    ELSE IF r.err = OK
    THEN <<(IF op \in {"read", "write"} THEN <<r.n>> ELSE <<0>>)>>
    ELSE <<errno(r.err)>>

\* One adapter operation: the state becomes r.s and the outcome handed to
\* the callback is recorded, thrown errors included
Call(op, r) ==
    /\ Running
    /\ inodeObj' = r.s.I
    /\ entryObj' = r.s.E
    /\ fds' = r.s.fds
    /\ inodes' = r.s.inodes
    /\ last' = Outcome(op, r)

ops_mkdir(path) == Call("mkdir", mkdir(Cur, path))
ops_unlink(path) == Call("unlink", unlink(Cur, path))
ops_rename(from, to) == Call("rename", rename(Cur, from, to))
ops_link(from, to) == Call("link", link(Cur, from, to))
ops_create(path) == Call("open", open(Cur, path, O_RDWR_CREAT))
ops_open(path, flags) == Call("open", open(Cur, path, flags))
ops_release(fd) == Call("close", close(Cur, fd))
ops_read(fd, len, pos) == Call("read", read(Cur, fd, ReadBuf(len), <<pos>>))
ops_write(fd, buf, pos) == Call("write", write(Cur, fd, buf, <<pos>>))
ops_truncate(path, size) == Call("truncate", truncate(Cur, path, size))
ops_ftruncate(fd, size) == Call("ftruncate", ftruncate(Cur, fd, size))
ops_readdir(path) == Call("readdir", readdir(Cur, path))
ops_fgetattr(fd) ==
    LET r == fstat(Cur, fd)
    IN Call("fstat", [s |-> Cur, err |-> r.err, n |-> r.st.size, buf |-> <<>>])

\* rmdir is a method of the file system the adapter does not expose; it is
\* called directly, its outcome recorded the same way
fs_rmdir(path) == Call("rmdir", rmdir(Cur, path))

\* The adapter over the name space: directories and files made, renamed
\* and removed, every error of every call recorded
InOps == Within(OpsMaxFds)'

NextOps ==
    \/ \E p \in OpsPaths : ops_mkdir(p) /\ InOps
    \/ \E p \in OpsPaths : fs_rmdir(p) /\ InOps
    \/ \E p \in OpsPaths : ops_unlink(p) /\ InOps
    \/ \E p, q \in OpsPaths : ops_rename(p, q) /\ InOps
    \/ \E p \in OpsPaths : ops_create(p) /\ InOps
    \/ \E p \in OpsPaths, fl \in OpsFlags : ops_open(p, fl) /\ InOps
    \/ \E fd \in FdIds : ops_release(fd) /\ InOps
    \/ \E p \in OpsPaths : ops_truncate(p, 1) /\ InOps
    \/ \E p \in OpsPaths : ops_readdir(p) /\ InOps

SpecOps == Init /\ [][NextOps]_vars

\* The adapter over descriptors: files '/a' and '/b', hard links between
\* them, descriptors opened with every kind of flag, used and released
InOpsFd == Within(OpsFdMaxFds)'

NextOpsFd ==
    \/ \E p \in {PathA, PathB} : ops_create(p) /\ InOpsFd
    \/ \E p \in {PathA, PathB}, fl \in OpsFlags : ops_open(p, fl) /\ InOpsFd
    \/ \E fd \in FdIds : ops_release(fd) /\ InOpsFd
    \/ \E fd \in FdIds : ops_read(fd, 1, 0) /\ InOpsFd
    \/ \E fd \in FdIds : ops_write(fd, <<1>>, 0) /\ InOpsFd
    \/ \E fd \in FdIds : ops_ftruncate(fd, 1) /\ InOpsFd
    \/ \E fd \in FdIds : ops_fgetattr(fd) /\ InOpsFd
    \/ \E p, q \in {PathA, PathB} : ops_link(p, q) /\ InOpsFd

SpecOpsFd == Init /\ [][NextOpsFd]_vars

----------------------------------------------------------------------------
(* Extended attributes: two keys and two values on the entries '/a' and    *)
(* '/b', which are made by the adapter's create, hard-linked and renamed.  *)
XattrNames == {"user.j", "user.k"}
XattrValues == {<<1>>, <<2, 3>>}

Setxattr(path, name, value) ==
    Apply("setxattr", setxattr(Cur, path, name, value))
Getxattr(path, name) == Apply("getxattr", getxattr(Cur, path, name))
Listxattr(path) == Apply("listxattr", listxattr(Cur, path))
Removexattr(path, name) == Apply("removexattr", removexattr(Cur, path, name))

InXattr == Within(NsMaxFds)'

NextXattr ==
    \/ \E p \in {PathA, PathB} : Open(p, O_RDWR_CREAT) /\ InXattr
    \/ \E fd \in FdIds : Close(fd) /\ InXattr
    \/ \E p, q \in {PathA, PathB} : Link(p, q) /\ InXattr
    \/ \E p, q \in {PathA, PathB} : Rename(p, q) /\ InXattr
    \/ \E p \in {PathA, PathB}, k \in XattrNames, v \in XattrValues :
           Setxattr(p, k, v) /\ InXattr
    \/ \E p \in {PathA, PathB}, k \in XattrNames : Getxattr(p, k) /\ InXattr
    \/ \E p \in {PathA, PathB} : Listxattr(p) /\ InXattr
    \/ \E p \in {PathA, PathB}, k \in XattrNames :
           Removexattr(p, k) /\ InXattr

SpecXattr == Init /\ [][NextXattr]_vars

----------------------------------------------------------------------------
(* Modes: files and directories directly below the root, made, linked,     *)
(* unlinked, opened and given every mode word over ModeBits, the root      *)
(* included.                                                               *)
ModeBits == {"S_IFDIR", "S_IFREG", "X"}
Modes == SUBSET ModeBits

Chmod(path, mode) == Apply("chmod", chmod(Cur, path, mode))

InMode == Within(NsMaxFds)'

NextMode ==
    \/ \E p \in {PathA, PathB} : Mkdir(p) /\ InMode
    \/ \E p \in {PathA, PathB} : Open(p, O_RDWR_CREAT) /\ InMode
    \/ \E fd \in FdIds : Close(fd) /\ InMode
    \/ \E p, q \in {PathA, PathB} : Link(p, q) /\ InMode
    \/ \E p \in {PathA, PathB} : Unlink(p) /\ InMode
    \/ \E p \in {PathA, PathB, PathRoot}, m \in Modes : Chmod(p, m) /\ InMode

SpecMode == Init /\ [][NextMode]_vars

----------------------------------------------------------------------------
(* The tree: what a lookup from the root can reach *)

children(s, e) ==
    LET es == s.I[s.E[e].inode].entries
    IN {es[k] : k \in 1..Len(es)}

RECURSIVE reach(_, _)
reach(s, S) ==
    LET T == S \cup UNION {children(s, e) : e \in S}
    IN IF T = S THEN S ELSE reach(s, T)

\* The entries bound to a name somewhere below the root
TreeEntries(s) == reach(s, {root}) \ {root}

\* The entries of the tree that reference inode i
LinksTo(s, i) == {e \in TreeEntries(s) : s.E[e].inode = i}

----------------------------------------------------------------------------
(* C1 -- link-count equality.  Every inode referenced by at least one      *)
(* entry of the tree has nlink equal to the number of entries of the tree  *)
(* that reference it; and whenever link(from, to) succeeds on a file with  *)
(* one link, stat(from).nlink and stat(to).nlink are 2 afterwards, and     *)
(* stat(to).nlink is 1 after a following unlink(from).                     *)
LinkCountEquality(s) ==
    \A i \in 1..Len(s.I) :
        LinksTo(s, i) # {} => s.I[i].nlink = Cardinality(LinksTo(s, i))

LinkThenUnlink(s, from, to) ==
    LET l == link(s, from, to)
        u == unlink(l.s, from)
    IN (l.err = OK /\ stat(s, from).st.nlink = 1) =>
          /\ stat(l.s, from).st.nlink = 2
          /\ stat(l.s, to).st.nlink = 2
          /\ u.err = OK
          /\ stat(u.s, to).st.nlink = 1

C1_LinkCount ==
    /\ \A from, to \in Paths : LinkThenUnlink(Cur, from, to)
    /\ LinkCountEquality(Cur)

----------------------------------------------------------------------------
(* C2 -- round trip.  On the file behind an open descriptor, for every     *)
(* offset o and byte string b, write(o, b) followed at once by a read at o *)
(* into a buffer of |b| bytes returns |b| and leaves the buffer equal to   *)
(* b, whatever the size of the file.                                       *)
RoundTrip(s, fd, o, b) ==
    LET w == write(s, fd, b, <<o>>)
        r == read(w.s, fd, ReadBuf(Len(b)), <<o>>)
    IN /\ w.err = OK /\ w.n = Len(b)
       /\ r.err = OK /\ r.n = Len(b)
       /\ r.buf = b

C2_RoundTrip ==
    lookupFd(Cur, FdBase) # 0 =>
        \A o \in 0..MaxOffset, b \in FileBufs : RoundTrip(Cur, FdBase, o, b)

----------------------------------------------------------------------------
(* C3 -- truncate and read counts.  After truncate(n) on the file, stat    *)
(* reports size n and a read at 0 into n + k bytes returns n; and a read   *)
(* at offset o into len bytes returns min(o + len, size) - o, and 0 when   *)
(* o >= size.                                                              *)
ReadCount(size, o, len) == IF o >= size THEN 0 ELSE Min({o + len, size}) - o

TruncateThenRead(s, fd, path, n, k) ==
    LET t == truncate(s, path, n)
        r == read(t.s, fd, ReadBuf(n + k), <<0>>)
    IN /\ t.err = OK
       /\ stat(t.s, path).st.size = n
       /\ r.err = OK /\ r.n = n

ReadsBoundedBySize(s, fd, o, len) ==
    LET r == read(s, fd, ReadBuf(len), <<o>>)
    IN r.err = OK /\ r.n = ReadCount(fstat(s, fd).st.size, o, len)

C3_TruncateRead ==
    lookupFd(Cur, FdBase) # 0 =>
        /\ \A n \in 0..MaxSize, k \in 0..1 :
               TruncateThenRead(Cur, FdBase, PathA, n, k)
        /\ \A o \in 0..MaxOffset, len \in 0..MaxLen :
               ReadsBoundedBySize(Cur, FdBase, o, len)

----------------------------------------------------------------------------
(* C4 -- rename leaves exactly the new binding.  In every reachable state  *)
(* and for every from, to naming different paths: if rename(from, to)      *)
(* succeeds, then afterwards lookup(from) fails with ENOENT and lookup(to) *)
(* returns the entry that was bound at from, with the inode, the data and  *)
(* the attributes it had.                                                  *)
SameEntry(s1, s2, e) ==
    /\ s2.E[e].inode = s1.E[e].inode
    /\ s2.E[e].attributes = s1.E[e].attributes
    /\ s2.I[s2.E[e].inode].blocks = s1.I[s1.E[e].inode].blocks
    /\ s2.I[s2.E[e].inode].size = s1.I[s1.E[e].inode].size
    /\ s2.I[s2.E[e].inode].mode = s1.I[s1.E[e].inode].mode

RenameRebinds(s, from, to) ==
    LET r == rename(s, from, to)
        fe == lookup(s, from).e
    IN (split(from) # split(to) /\ r.err = OK) =>
          /\ lookup(r.s, from).err = "ENOENT"
          /\ lookup(r.s, to) = [err |-> OK, e |-> fe]
          /\ SameEntry(s, r.s, fe)

C4_RenameRebinds == \A from, to \in Paths : RenameRebinds(Cur, from, to)

----------------------------------------------------------------------------
(* C5 -- name uniqueness.  No directory, in the tree or detached from it,  *)
(* holds two child entries with the same name.                             *)
C5_UniqueNames ==
    \A i \in 1..Len(inodeObj) :
        LET es == inodeObj[i].entries
        IN \A j, k \in 1..Len(es) :
              entryObj[es[j]].name = entryObj[es[k]].name => j = k

(* A link has returned and the root holds two children.                    *)
C5_Witness ==
    /\ last.op = "link"
    /\ Len(inodeObj[entryObj[root].inode].entries) = 2

----------------------------------------------------------------------------
(* C6 -- a hard link shares the inode.  After a successful link(from, to), *)
(* stat reports the same ino and size for both paths; bytes written        *)
(* through a descriptor opened on from are read back through a read-only   *)
(* descriptor opened on to; and after unlink(from), to still resolves and  *)
(* the same bytes are read again.                                          *)
LinkShares(s, from, to, b) ==
    LET l == link(s, from, to)
        sf == stat(l.s, from)
        st == stat(l.s, to)
        o1 == open(l.s, from, O_RDWR_CREAT)
        w == write(o1.s, o1.n, b, <<0>>)
        o2 == open(w.s, to, O_RDONLY)
        r1 == read(o2.s, o2.n, ReadBuf(Len(b)), <<0>>)
        u == unlink(r1.s, from)
        r2 == read(u.s, o2.n, ReadBuf(Len(b)), <<0>>)
    IN l.err = OK =>
          /\ sf.err = OK /\ st.err = OK
          /\ sf.st.ino = st.st.ino /\ sf.st.size = st.st.size
          /\ o1.err = OK /\ w.err = OK /\ o2.err = OK
          /\ stat(w.s, to).st.size = stat(w.s, from).st.size
          /\ r1.err = OK /\ r1.n = Len(b) /\ r1.buf = b
          /\ u.err = OK /\ lookup(u.s, to).err = OK
          /\ r2.err = OK /\ r2.n = Len(b) /\ r2.buf = b

C6_LinkSharesInode ==
    \A from, to \in {PathA, PathB}, b \in NsBufs : LinkShares(Cur, from, to, b)

----------------------------------------------------------------------------
(* C7 -- an unlinked file lives while it is open.  When the only name of a *)
(* file with an open descriptor is removed by unlink, or replaced by a     *)
(* rename over it, then fstat, read and write on the descriptor still      *)
(* succeed and act on the file's bytes as they were before; after the      *)
(* unlink the path fails with ENOENT.                                      *)
Contents(f) ==
    [k \in 1..f.size |->
        LET blk == blockAt(f.blocks, (k - 1) \div BLOCK_SIZE)
        IN IF blk = <<>> THEN 0 ELSE blk[((k - 1) % BLOCK_SIZE) + 1]]

Expected(f, len) ==
    [k \in 1..len |-> IF k <= f.size THEN Contents(f)[k] ELSE Untouched]

\* What the descriptor in slot k does in state t to the file that was f
ActsOn(t, k, f) ==
    LET id == t.fds[k].id
        fs == fstat(t, id)
    IN /\ fs.err = OK /\ fs.st.size = f.size
       /\ \A len \in NsLens :
              LET r == read(t, id, ReadBuf(len), <<0>>)
              IN /\ r.err = OK /\ r.n = Min({len, f.size})
                 /\ r.buf = Expected(f, len)
       /\ \A b \in NsBufs :
              LET w == write(t, id, b, <<0>>)
                  g == w.s.I[w.s.E[w.s.fds[k].file].inode]
              IN /\ w.err = OK /\ w.n = Len(b)
                 /\ g.size = Max({f.size, Len(b)})
                 /\ \A j \in 1..g.size :
                        Contents(g)[j] = IF j <= Len(b) THEN b[j]
                                         ELSE Contents(f)[j]

LastLinkRemoved(s, k, p, q) ==
    LET e == s.fds[k].file
        f == s.I[s.E[e].inode]
        u == unlink(s, p)
        rn == rename(s, q, p)
    IN (lookup(s, p).err = OK /\ lookup(s, p).e = e
            /\ LinksTo(s, s.E[e].inode) = {e}) =>
          /\ u.err = OK
          /\ lookup(u.s, p).err = "ENOENT"
          /\ ActsOn(u.s, k, f)
          /\ (q # p /\ rn.err = OK) =>
                /\ lookup(rn.s, p).e # e
                /\ ActsOn(rn.s, k, f)

C7_UnlinkedStaysOpen ==
    \A k \in 1..Len(fds), p, q \in {PathA, PathB} :
        fds[k] # Null => LastLinkRemoved(Cur, k, p, q)

----------------------------------------------------------------------------
(* C8 -- descriptor ids.  Every non-null slot k of the table holds the     *)
(* descriptor whose id is 20 plus its index, so ids are >= 20, no two open *)
(* descriptors share one, and lookupFd(id) finds that slot; the id open    *)
(* returns is the one of the descriptor it added; and a step leaves every  *)
(* open descriptor in its slot, bound to the same entry with the same      *)
(* flags, unless the step is close of that very id.                        *)
OpenSlots(s) == {k \in 1..Len(s.fds) : s.fds[k] # Null}

IdsMatchSlots ==
    \A k \in OpenSlots(Cur) :
        /\ fds[k].id = FdBase + k - 1
        /\ fds[k].id >= 20
        /\ lookupFd(Cur, fds[k].id) = k
        /\ \A j \in OpenSlots(Cur) : fds[j].id = fds[k].id => j = k

OpenReturnsId ==
    \A p \in {PathA, PathB}, fl \in OpenFlags :
        LET r == open(Cur, p, fl)
            k == lookupFd(r.s, r.n)
        IN r.err = OK =>
              /\ r.n >= 20
              /\ k # 0 /\ k \notin OpenSlots(Cur)
              /\ r.s.fds[k].file = lookup(r.s, p).e

Binding(d) == [d EXCEPT !.position = 0]

StaysBound ==
    \A k \in OpenSlots(Cur) :
        \/ /\ k \in OpenSlots(Cur')
           /\ Binding(fds'[k]) = Binding(fds[k])
           /\ lookupFd(Cur', fds[k].id) = k
        \/ /\ Cur' = close(Cur, fds[k].id).s
           /\ lookupFd(Cur', fds[k].id) = 0

C8_FdIdsStable == [](IdsMatchSlots /\ OpenReturnsId) /\ [][StaysBound]_vars

(* Three descriptors were opened on two files, the middle one is closed,   *)
(* and a read through the last one has returned.                           *)
C8_Witness ==
    /\ Len(fds) = 3 /\ fds[2] = Null /\ fds[1] # Null /\ fds[3] # Null
    /\ fds[1].file # fds[3].file
    /\ last.op = "read"

----------------------------------------------------------------------------
(* C9 -- descriptor table compaction.  The table is empty or ends with a   *)
(* non-null slot; so a table with no open descriptor is the empty table,   *)
(* and the next open then returns id 20.                                   *)
C9_FdTableTrimmed ==
    /\ fds = <<>> \/ fds[Len(fds)] # Null
    /\ OpenSlots(Cur) = {} => fds = <<>>
    /\ OpenSlots(Cur) = {} =>
          \A p \in {PathA, PathB}, fl \in OpenFlags :
              open(Cur, p, fl).err = OK => open(Cur, p, fl).n = 20

(* Both files exist, so descriptors were opened, and the call that just    *)
(* returned is the close that emptied the table.                           *)
C9_Witness ==
    /\ last.op = "close"
    /\ fds = <<>>
    /\ Len(entryObj) = 3

----------------------------------------------------------------------------
(* C10 -- holes read as zero.  A read of one byte at a position below size *)
(* whose block was never allocated gives a zero byte; and after a write of *)
(* one byte at offset BLOCK_SIZE into an empty file, a read of             *)
(* BLOCK_SIZE + 1 bytes at 0 returns BLOCK_SIZE + 1: BLOCK_SIZE zero       *)
(* bytes, then the written byte.                                           *)
HoleReadsZero(s, fd, o) ==
    LET f == s.I[s.E[s.fds[lookupFd(s, fd)].file].inode]
        r == read(s, fd, ReadBuf(1), <<o>>)
    IN (o < f.size /\ blockAt(f.blocks, o \div BLOCK_SIZE) = <<>>) =>
          r.err = OK /\ r.n = 1 /\ r.buf = <<0>>

SparseWrite(s, fd) ==
    LET w == write(s, fd, <<1>>, <<BLOCK_SIZE>>)
        r == read(w.s, fd, ReadBuf(BLOCK_SIZE + 1), <<0>>)
    IN fstat(s, fd).st.size = 0 =>
          /\ r.err = OK /\ r.n = BLOCK_SIZE + 1
          /\ r.buf = Zeros(BLOCK_SIZE) \o <<1>>

C10_SparseZeroFill ==
    lookupFd(Cur, FdBase) # 0 =>
        /\ SparseWrite(Cur, FdBase)
        /\ \A o \in 0..MaxSize : HoleReadsZero(Cur, FdBase, o)

----------------------------------------------------------------------------
(* C11 -- errors of open.  When the parent of the last component resolves, *)
(* open fails with EPERM if the name is bound to an entry that is not a    *)
(* regular file, with EEXIST if it is bound to a regular file and the flag *)
(* has O_EXCL, with ENOENT if it is not bound and the flag is read-only or *)
(* lacks O_CREAT; and an open that fails in one of these ways leaves the   *)
(* descriptor table, the entries and every file's size and blocks as they  *)
(* were.                                                                   *)
ReadOnly(fl) == fl.acc = "O_RDONLY"

OpenError(s, path, fl) ==
    LET pd == parentDir(s, path)
        file == get(s, pd.parent, pd.name)
        r == open(s, path, fl)
    IN /\ pd.err = OK =>
             /\ (file # 0 /\ ~isFile(s, file)) => r.err = "EPERM"
             /\ (file # 0 /\ isFile(s, file) /\ fl.excl) => r.err = "EEXIST"
             /\ (file = 0 /\ (ReadOnly(fl) \/ ~fl.creat)) => r.err = "ENOENT"
       /\ r.err \in {"EPERM", "EEXIST", "ENOENT"} => r.s = s

C11_OpenErrors ==
    \A path \in OpsPaths, fl \in AllFlags : OpenError(Cur, path, fl)

(* The adapter's open has just failed with EEXIST, on a file of one byte.  *)
C11_Witness ==
    /\ last.op = "open" /\ last.err = "EEXIST"
    /\ \E e \in TreeEntries(Cur) : isFile(Cur, e) /\ Stat(Cur, e).size = 1

----------------------------------------------------------------------------
(* C12 -- open resets.  A successful open of an existing regular file with *)
(* access mode O_WRONLY or O_RDWR and without O_APPEND leaves its inode    *)
(* with size 0 and no blocks, which every path bound to that inode and     *)
(* every descriptor already open on it then report; any other successful   *)
(* open of it leaves size and blocks as they were; and the new descriptor  *)
(* starts at the file's size with O_APPEND, at 0 without.                  *)
InodeOf(s, e) == s.E[e].inode

OpenReset(s, path, fl) ==
    LET l == lookup(s, path)
        r == open(s, path, fl)
        i == InodeOf(s, l.e)
        d == r.s.fds[lookupFd(r.s, r.n)]
    IN (l.err = OK /\ r.err = OK) =>
          /\ IF fl.acc \in {"O_WRONLY", "O_RDWR"} /\ ~fl.append
             THEN /\ r.s.I[i].size = 0 /\ r.s.I[i].blocks = <<>>
                  /\ \A q \in {PathA, PathB} :
                         (lookup(s, q).err = OK
                              /\ InodeOf(s, lookup(s, q).e) = i) =>
                            stat(r.s, q).st.size = 0
                  /\ \A k \in OpenSlots(s) :
                         InodeOf(s, s.fds[k].file) = i =>
                            /\ fstat(r.s, s.fds[k].id).st.size = 0
                            /\ read(r.s, s.fds[k].id, ReadBuf(1), <<0>>).err = OK
                            /\ read(r.s, s.fds[k].id, ReadBuf(1), <<0>>).n = 0
             ELSE r.s.I[i] = s.I[i]
          /\ d.file = l.e
          /\ d.position = IF fl.append THEN s.I[i].size ELSE 0

C12_OpenResets ==
    \A path \in {PathA, PathB}, fl \in AllFlags : OpenReset(Cur, path, fl)

(* A file was written through descriptor 20, then opened for writing       *)
(* through another of its names: it is empty, 20 is still open on it.      *)
C12_Witness ==
    /\ last.op = "open" /\ last.err = OK
    /\ Len(fds) = 2 /\ fds[1] # Null /\ fds[2] # Null
    /\ fds[1].file # fds[2].file
    /\ InodeOf(Cur, fds[1].file) = InodeOf(Cur, fds[2].file)
    /\ fds[1].position > 0
    /\ fds[2].writable /\ ~fds[2].appending
    /\ Stat(Cur, fds[1].file).size = 0

----------------------------------------------------------------------------
(* C13 -- errors of rename.  When the parents of both paths resolve,       *)
(* rename fails with ENOENT if from is not bound, with EISDIR if to is a   *)
(* directory and from is not, with ENOTDIR if from is a directory and to   *)
(* is bound to a non-directory, with ENOTEMPTY if both are directories and *)
(* to has children; and when to is bound to another entry and none of      *)
(* these apply, the rename succeeds, that entry is no longer a child of    *)
(* its parent and the link count of its inode is one less than before.     *)
RenameErrors(s, from, to) ==
    LET f == parentDir(s, from)
        t == parentDir(s, to)
        fe == get(s, f.parent, f.name)
        te == get(s, t.parent, t.name)
        r == rename(s, from, to)
    IN (f.err = OK /\ t.err = OK) =>
          IF fe = 0 THEN r.err = "ENOENT"
          ELSE IF te = 0 THEN r.err = OK
          ELSE IF isDirectory(s, te) /\ ~isDirectory(s, fe)
          THEN r.err = "EISDIR"
          ELSE IF isDirectory(s, fe) /\ ~isDirectory(s, te)
          THEN r.err = "ENOTDIR"
          ELSE IF isDirectory(s, fe) /\ isDirectory(s, te) /\ ~isEmpty(s, te)
          THEN r.err = "ENOTEMPTY"
          ELSE /\ r.err = OK
               /\ te # fe =>
                     /\ te \notin children(r.s, t.parent)
                     /\ r.s.I[InodeOf(s, te)].nlink
                            = s.I[InodeOf(s, te)].nlink - 1

C13_RenameErrors ==
    \A from, to \in OpsPaths :
        /\ RenameErrors(Cur, from, to)
        /\ rename(Cur, from, to).err # OK => rename(Cur, from, to).s = Cur

----------------------------------------------------------------------------
(* C14 -- unlink and rmdir.  When the parent resolves, unlink fails with   *)
(* ENOENT if the name is absent and EPERM if it names a directory; rmdir   *)
(* fails with ENOENT if it is absent, ENOTDIR if it is not a directory,    *)
(* ENOTEMPTY if the directory has a child; otherwise that entry, and it    *)
(* alone, leaves its parent's list and no other list changes.  And no      *)
(* operation takes a directory that has children out of the tree.          *)
RemovesOne(s, r, d, ex) ==
    LET di == InodeOf(s, d)
        es == s.I[di].entries
        at == CHOOSE k \in 1..Len(es) : es[k] = ex
    IN /\ r.err = OK
       /\ r.s.I[di].entries = Splice(es, at)
       /\ \A i \in 1..Len(s.I) : i # di => r.s.I[i].entries = s.I[i].entries
       /\ Len(r.s.I) = Len(s.I)

UnlinkErrors(s, path) ==
    LET pd == parentDir(s, path)
        ex == get(s, pd.parent, pd.name)
        r == unlink(s, path)
    IN pd.err = OK =>
          IF ex = 0 THEN r.err = "ENOENT" /\ r.s = s
          ELSE IF isDirectory(s, ex) THEN r.err = "EPERM" /\ r.s = s
          ELSE RemovesOne(s, r, pd.parent, ex)

RmdirErrors(s, path) ==
    LET pd == parentDir(s, path)
        ex == get(s, pd.parent, pd.name)
        r == rmdir(s, path)
    IN pd.err = OK =>
          IF ex = 0 THEN r.err = "ENOENT" /\ r.s = s
          ELSE IF ~isDirectory(s, ex) THEN r.err = "ENOTDIR" /\ r.s = s
          ELSE IF ~isEmpty(s, ex) THEN r.err = "ENOTEMPTY" /\ r.s = s
          ELSE RemovesOne(s, r, pd.parent, ex)

\* Every directory that is in the tree of s and not in the tree of t is
\* empty in s
OnlyEmptyRemoved(s, t) ==
    \A e \in TreeEntries(s) \ TreeEntries(t) :
        isDirectory(s, e) => isEmpty(s, e)

C14_RemoveErrors ==
    /\ \A p \in OpsPaths : UnlinkErrors(Cur, p) /\ RmdirErrors(Cur, p)
    /\ \A p \in OpsPaths :
           /\ OnlyEmptyRemoved(Cur, unlink(Cur, p).s)
           /\ OnlyEmptyRemoved(Cur, rmdir(Cur, p).s)
           /\ OnlyEmptyRemoved(Cur, mkdir(Cur, p).s)
           /\ \A fl \in AllFlags : OnlyEmptyRemoved(Cur, open(Cur, p, fl).s)
    /\ \A p, q \in OpsPaths \cup {PathAC} :
           /\ OnlyEmptyRemoved(Cur, link(Cur, p, q).s)
           /\ OnlyEmptyRemoved(Cur, rename(Cur, p, q).s)

----------------------------------------------------------------------------
(* C15 -- path resolution.  A path with no component resolves to the root. *)
(* A path q/name resolves as q does and then: ENOTDIR if q's entry is not  *)
(* a directory, ENOENT if it has no child called name, else that child.    *)
(* One more '/' anywhere in a path changes nothing ('/a//b/' is '/a/b').   *)
(* mkdir, rmdir, unlink, open, link and rename fail with EINVAL on a path  *)
(* with no component, with the error of the parent's resolution when that  *)
(* fails, and with ENOTDIR when the parent is not a directory.             *)
CompA == <<"a">>
CompB == <<"b">>
Join(q, name) == q \o <<"/">> \o name
InsertSlash(p, k) == SubSeq(p, 1, k) \o <<"/">> \o SubSeq(p, k + 1, Len(p))

ResolvedPaths ==
    {PathEmpty, PathRoot, PathA, PathB, PathAB, PathSlashes, Join(PathB, CompA)}

ResolvesStepwise(s, q, name) ==
    LET lq == lookup(s, q)
        l == lookup(s, Join(q, name))
    IN IF lq.err # OK THEN l.err = lq.err
       ELSE IF ~isDirectory(s, lq.e) THEN l.err = "ENOTDIR"
       ELSE IF \A c \in children(s, lq.e) : s.E[c].name # name
       THEN l.err = "ENOENT"
       ELSE l.err = OK /\ l.e \in children(s, lq.e) /\ s.E[l.e].name = name

\* The errors of the operations that need a last component, on path p
\* (q is the other path of link and rename, used in both positions when
\* its own parent resolves)
ErrorsOn(s, p, q) ==
    {mkdir(s, p).err, rmdir(s, p).err, unlink(s, p).err,
     link(s, p, q).err, rename(s, p, q).err}
    \cup {open(s, p, fl).err : fl \in OpsFlags \cup {O_RDWR_CREAT}}
    \cup (IF parentDir(s, q).err = OK
          THEN {link(s, q, p).err, rename(s, q, p).err} ELSE {})

NeedsLastComponent(s, p, q) ==
    /\ ErrorsOn(s, p, q) = {"EINVAL"}
    /\ ErrorsOn(s, InsertSlash(p, 0), q) = {"EINVAL"}

ParentMustResolve(s, p, name, q) ==
    LET lp == lookup(s, p)
    IN /\ lp.err # OK => ErrorsOn(s, Join(p, name), q) = {lp.err}
       /\ (lp.err = OK /\ ~isDirectory(s, lp.e)) =>
              ErrorsOn(s, Join(p, name), q) = {"ENOTDIR"}

C15_PathResolution ==
    /\ lookup(Cur, PathEmpty) = [err |-> OK, e |-> root]
    /\ lookup(Cur, PathSlashes) = lookup(Cur, PathAB)
    /\ \A p \in ResolvedPaths :
           /\ \A k \in 0..Len(p) : lookup(Cur, InsertSlash(p, k)) = lookup(Cur, p)
           /\ \A name \in {CompA, CompB} :
                  /\ ResolvesStepwise(Cur, p, name)
                  /\ \A q \in {PathA, PathB} :
                         ParentMustResolve(Cur, p, name, q)
    /\ \A p \in {PathEmpty, PathRoot}, q \in {PathA, PathB} :
           NeedsLastComponent(Cur, p, q)

(* mkdir has just failed with ENOTDIR: its parent path names a file.       *)
C15_Witness ==
    /\ last.op = "mkdir" /\ last.err = "ENOTDIR"
    /\ lookup(Cur, PathA).err = OK /\ isFile(Cur, lookup(Cur, PathA).e)

----------------------------------------------------------------------------
(* C16 -- EBADF.  close, read, write, fstat and ftruncate on an id that is *)
(* below 20, beyond the table or in a null slot fail with EBADF and change *)
(* nothing; an id just closed is such an id; and an id that is not open    *)
(* becomes open only by an open that returns it.                           *)
NotOpen(s, fd) ==
    \/ fd < 20
    \/ fd - 20 >= Len(s.fds)
    \/ s.fds[fd - 20 + 1] = Null

AllEBADF(s, fd) ==
    /\ close(s, fd).err = "EBADF" /\ close(s, fd).s = s
    /\ \A pos \in {<<>>, <<0>>} :
           /\ read(s, fd, ReadBuf(1), pos).err = "EBADF"
           /\ read(s, fd, ReadBuf(1), pos).s = s
           /\ write(s, fd, <<1>>, pos).err = "EBADF"
           /\ write(s, fd, <<1>>, pos).s = s
    /\ fstat(s, fd).err = "EBADF"
    /\ ftruncate(s, fd, 1).err = "EBADF" /\ ftruncate(s, fd, 1).s = s

SomeIds == (FdBase - 2)..(FdBase + OpsFdMaxFds + 1)

BadIdsFail ==
    \A fd \in SomeIds :
        IF NotOpen(Cur, fd) THEN AllEBADF(Cur, fd)
        ELSE /\ close(Cur, fd).err = OK
             /\ NotOpen(close(Cur, fd).s, fd)
             /\ AllEBADF(close(Cur, fd).s, fd)

OpenedOnlyByOpen ==
    \A fd \in SomeIds :
        (NotOpen(Cur, fd) /\ ~NotOpen(Cur', fd)) =>
            last'.op = "open" /\ last'.err = OK /\ last'.n = fd

C16_BadDescriptor == []BadIdsFail /\ [][OpenedOnlyByOpen]_vars

(* A read has just failed with EBADF while the table has a closed slot     *)
(* below a descriptor that is still open.                                  *)
C16_Witness ==
    /\ last.op = "read" /\ last.err = "EBADF"
    /\ Len(fds) = 2 /\ fds[1] = Null

----------------------------------------------------------------------------
(* C17 -- extended attributes.  On a path that resolves, after             *)
(* setxattr(p, k, v): getxattr(p, k) is v, listxattr(p) is the former list *)
(* with k added last if it was not in it (so k is in it once), the other   *)
(* keys keep their values, and no other entry's attributes change, those   *)
(* of the other hard links of the same inode included; a second setxattr   *)
(* on k replaces the value and keeps the list; removexattr(p, k) takes k   *)
(* out and a second one succeeds and changes nothing; a link starts with   *)
(* no attributes; a renamed entry has the attributes it had.               *)
Keys(s, p) == listxattr(s, p).buf
Value(s, p, k) == getxattr(s, p, k).buf
Without(seq, x) == SelectSeq(seq, LAMBDA y : y # x)
Count(seq, x) == Cardinality({j \in 1..Len(seq) : seq[j] = x})

SetThenGet(s, p, k, v) ==
    LET r == setxattr(s, p, k, v)
        e == lookup(s, p).e
    IN /\ r.err = OK
       /\ Value(r.s, p, k) = <<v>>
       /\ Keys(r.s, p) = IF Count(Keys(s, p), k) = 0
                         THEN Append(Keys(s, p), k) ELSE Keys(s, p)
       /\ Count(Keys(r.s, p), k) = 1
       /\ \A j \in XattrNames \ {k} : Value(r.s, p, j) = Value(s, p, j)
       /\ \A o \in 1..Len(s.E) : o # e => r.s.E[o] = s.E[o]
       /\ \A w \in XattrValues :
              LET r2 == setxattr(r.s, p, k, w)
              IN /\ r2.err = OK
                 /\ Value(r2.s, p, k) = <<w>>
                 /\ Keys(r2.s, p) = Keys(r.s, p)

RemoveTwice(s, p, k) ==
    LET r == removexattr(s, p, k)
        r2 == removexattr(r.s, p, k)
    IN /\ r.err = OK
       /\ Keys(r.s, p) = Without(Keys(s, p), k)
       /\ Value(r.s, p, k) = <<>>
       /\ \A j \in XattrNames \ {k} : Value(r.s, p, j) = Value(s, p, j)
       /\ r2.err = OK /\ r2.s = r.s

LinkStartsEmpty(s, from, to) ==
    LET l == link(s, from, to)
    IN l.err = OK =>
          /\ Keys(l.s, to) = <<>>
          /\ Keys(l.s, from) = Keys(s, from)
          /\ lookup(l.s, to).e # lookup(l.s, from).e

RenameKeeps(s, from, to) ==
    LET fe == lookup(s, from).e
        r == rename(s, from, to)
    IN r.err = OK =>
          /\ r.s.E[fe].attributes = s.E[fe].attributes
          /\ lookup(r.s, to).err = OK =>
                /\ lookup(r.s, to).e = fe
                /\ Keys(r.s, to) = Keys(s, from)
                /\ \A k \in XattrNames : Value(r.s, to, k) = Value(s, from, k)

C17_Xattr ==
    \A p \in {PathA, PathB} :
        /\ lookup(Cur, p).err = OK =>
              \A k \in XattrNames :
                  /\ RemoveTwice(Cur, p, k)
                  /\ \A v \in XattrValues : SetThenGet(Cur, p, k, v)
        /\ \A q \in {PathA, PathB} :
               LinkStartsEmpty(Cur, p, q) /\ RenameKeeps(Cur, p, q)

(* '/a' and '/b' are hard links of one inode; '/a' has both keys, user.k   *)
(* first, and '/b' has one key; the last call was a setxattr.              *)
C17_Witness ==
    /\ last.op = "setxattr"
    /\ lookup(Cur, PathA).err = OK /\ lookup(Cur, PathB).err = OK
    /\ InodeOf(Cur, lookup(Cur, PathA).e) = InodeOf(Cur, lookup(Cur, PathB).e)
    /\ Keys(Cur, PathA) = <<"user.k", "user.j">>
    /\ Len(Keys(Cur, PathB)) = 1

----------------------------------------------------------------------------
(* C18 -- the adapter's callback.  Every adapter operation, on every       *)
(* argument, invokes its callback exactly once; the first argument is 0    *)
(* when the call into the file system returned (the byte count for read    *)
(* and write) and a negative integer when it threw, whatever the type of   *)
(* the entry the path resolves to.                                         *)
CalledBackOnce(op, r) ==
    LET cbs == callbacks(op, r)
    IN /\ Len(cbs) = 1
       /\ Len(cbs[1]) = 1
       /\ IF r.err = OK
          THEN cbs[1][1] = (IF op \in {"read", "write"} THEN r.n ELSE 0)
          ELSE cbs[1][1] < 0

AsResult(s, r) == [s |-> s, err |-> r.err, n |-> 0, buf |-> <<>>]

C18_AdapterCallbacks ==
    /\ \A p \in OpsPaths :
           /\ CalledBackOnce("mkdir", mkdir(Cur, p))
           /\ CalledBackOnce("unlink", unlink(Cur, p))
           /\ CalledBackOnce("create", open(Cur, p, O_RDWR_CREAT))
           /\ \A fl \in OpsFlags : CalledBackOnce("open", open(Cur, p, fl))
           /\ CalledBackOnce("readdir", readdir(Cur, p))
           /\ CalledBackOnce("getattr", AsResult(Cur, stat(Cur, p)))
           /\ CalledBackOnce("listxattr", listxattr(Cur, p))
           /\ \A k \in XattrNames :
                  /\ CalledBackOnce("getxattr", getxattr(Cur, p, k))
                  /\ CalledBackOnce("setxattr", setxattr(Cur, p, k, <<1>>))
                  /\ CalledBackOnce("removexattr", removexattr(Cur, p, k))
           /\ \A q \in OpsPaths :
                  /\ CalledBackOnce("rename", rename(Cur, p, q))
                  /\ CalledBackOnce("link", link(Cur, p, q))
           /\ \A n \in 0..1 : CalledBackOnce("truncate", truncate(Cur, p, n))
    /\ \A fd \in FdIds :
           /\ CalledBackOnce("release", close(Cur, fd))
           /\ CalledBackOnce("fgetattr", AsResult(Cur, fstat(Cur, fd)))
           /\ CalledBackOnce("ftruncate", ftruncate(Cur, fd, 1))
           /\ CalledBackOnce("read", read(Cur, fd, ReadBuf(1), <<0>>))
           /\ CalledBackOnce("write", write(Cur, fd, <<1>>, <<0>>))

----------------------------------------------------------------------------
(* C19 -- inode numbers.  Of any two inodes ever created, the root's       *)
(* included, the later one has the greater number (so no number is used    *)
(* twice, removed entries included); mkdir and a creating open take the    *)
(* next number; link creates no inode and takes no number.                 *)

\* a > b on JavaScript numbers: false when either is NaN
Greater(a, b) == a # NaN /\ b # NaN /\ a > b

\* inodeObj holds every inode ever created, in creation order
IncreasingInos(s) ==
    \A i, j \in 1..Len(s.I) : i < j => Greater(s.I[j].ino, s.I[i].ino)

CreationTakesNext(s, path) ==
    LET m == mkdir(s, path)
        o == open(s, path, O_RDWR_CREAT)
    IN /\ m.err = OK =>
             /\ Len(m.s.I) = Len(s.I) + 1
             /\ \A i \in 1..Len(s.I) :
                    Greater(m.s.I[Len(m.s.I)].ino, s.I[i].ino)
       /\ (o.err = OK /\ lookup(s, path).err # OK) =>
             /\ Len(o.s.I) = Len(s.I) + 1
             /\ \A i \in 1..Len(s.I) :
                    Greater(o.s.I[Len(o.s.I)].ino, s.I[i].ino)

LinkTakesNone(s, from, to) ==
    LET l == link(s, from, to)
    IN l.err = OK =>
          /\ Len(l.s.I) = Len(s.I) /\ l.s.inodes = s.inodes
          /\ stat(l.s, to).st.ino = stat(s, from).st.ino

C19_InodeNumbers ==
    /\ IncreasingInos(Cur)
    /\ \A p \in Paths : CreationTakesNext(Cur, p)
    /\ \A p, q \in Paths : LinkTakesNone(Cur, p, q)

----------------------------------------------------------------------------
(* C20 -- size and blocks.  As stated: every regular file has              *)
(* size <= (number of blocks) * BLOCK_SIZE.  A growing truncate sets the   *)
(* size and allocates nothing, so that fails; what holds is the converse   *)
(* bound: every regular file has at most ceil(size / BLOCK_SIZE) blocks,   *)
(* no block lies wholly beyond the size.                                   *)
Files(s) == {i \in 1..Len(s.I) : "S_IFREG" \in s.I[i].mode}

\* the claim as stated
C20_SizeWithinBlocks ==
    \A i \in Files(Cur) :
        inodeObj[i].size <= Len(inodeObj[i].blocks) * BLOCK_SIZE

\* the claim as amended
C20_BlocksWithinSize ==
    \A i \in Files(Cur) :
        Len(inodeObj[i].blocks) <= Ceil(inodeObj[i].size, BLOCK_SIZE)

(* A file with data in its first block has just been grown by a truncate   *)
(* to more than two blocks.                                                *)
C20_Witness ==
    /\ last.op \in {"truncate", "ftruncate"}
    /\ \E i \in Files(Cur) :
           /\ Len(inodeObj[i].blocks) = 1
           /\ inodeObj[i].blocks[1] # alloc
           /\ inodeObj[i].size > 2 * BLOCK_SIZE

----------------------------------------------------------------------------
(* C21 -- grown regions read as zero.  On the file behind an open          *)
(* descriptor, of size a: after truncate(b) with b > a, a read of one byte *)
(* at every position in [a, b) returns one zero byte; and after a write    *)
(* that starts at an offset o > a, a read of one byte at every position in *)
(* [a, o) returns one zero byte -- whatever writes and truncates made the  *)
(* file what it is.                                                        *)
ReadsZeroAt(s, fd, k) ==
    LET r == read(s, fd, ReadBuf(1), <<k>>)
    IN r.err = OK /\ r.n = 1 /\ r.buf = <<0>>

GrownReadsZero(s, fd, path, b) ==
    LET a == fstat(s, fd).st.size
        t == truncate(s, path, b)
    IN b > a => \A k \in a..(b - 1) : ReadsZeroAt(t.s, fd, k)

GapReadsZero(s, fd, o, buf) ==
    LET a == fstat(s, fd).st.size
        w == write(s, fd, buf, <<o>>)
    IN o > a => \A k \in a..(o - 1) : ReadsZeroAt(w.s, fd, k)

C21_GrownRegionZero ==
    lookupFd(Cur, FdBase) # 0 =>
        /\ \A b \in 0..MaxSize : GrownReadsZero(Cur, FdBase, PathA, b)
        /\ \A o \in 0..MaxOffset : GapReadsZero(Cur, FdBase, o, <<1>>)

----------------------------------------------------------------------------
(* C22 -- reads and writes terminate.  On the file behind an open          *)
(* descriptor, whatever its size and blocks: for every offset and buffer   *)
(* length the read returns (its loop is not stuck on an empty slice), and  *)
(* for every offset and buffer the write returns, having taken the whole   *)
(* buffer.                                                                 *)
ReadReturns(s, fd, o, len) ==
    read(s, fd, ReadBuf(len), <<o>>).err # "DIVERGES"

WriteReturns(s, fd, o, b) ==
    LET w == write(s, fd, b, <<o>>)
    IN w.err = OK /\ w.n = Len(b)

C22_Terminates ==
    lookupFd(Cur, FdBase) # 0 =>
        /\ \A o \in 0..MaxOffset, len \in 0..MaxLen :
               ReadReturns(Cur, FdBase, o, len)
        /\ \A o \in 0..MaxOffset, b \in FileBufs :
               WriteReturns(Cur, FdBase, o, b)

----------------------------------------------------------------------------
(* C23 -- failed calls change nothing.  In every reachable state, every    *)
(* call of mkdir, rmdir, unlink, link, rename, open, close, read, write,   *)
(* truncate, ftruncate, readdir, stat, fstat, setxattr, getxattr,          *)
(* listxattr or removexattr that throws an error with an errno leaves the  *)
(* state as it was: directory entries, link counts, sizes, blocks,         *)
(* attributes and the descriptor table; and every step of the system that  *)
(* ends in such an error changes no part of the state.  (stat and fstat    *)
(* assign nothing, failing or not: their operators return no state.)       *)
Errnos == {"EPERM", "ENOENT", "EBADF", "EEXIST", "ENOTDIR", "EISDIR",
           "EINVAL", "ENOTEMPTY"}

Unchanged(s, r) == r.err \in Errnos => r.s = s

FailedPathCallsKeep(s, p) ==
    /\ Unchanged(s, mkdir(s, p))
    /\ Unchanged(s, rmdir(s, p))
    /\ Unchanged(s, unlink(s, p))
    /\ \A fl \in OpsFlags \cup {O_RDWR_CREAT} : Unchanged(s, open(s, p, fl))
    /\ \A n \in 0..1 : Unchanged(s, truncate(s, p, n))
    /\ Unchanged(s, readdir(s, p))
    /\ \A k \in XattrNames :
           /\ Unchanged(s, setxattr(s, p, k, <<1>>))
           /\ Unchanged(s, getxattr(s, p, k))
           /\ Unchanged(s, removexattr(s, p, k))
    /\ Unchanged(s, listxattr(s, p))

FailedPairCallsKeep(s, p, q) ==
    /\ Unchanged(s, link(s, p, q))
    /\ Unchanged(s, rename(s, p, q))

FailedFdCallsKeep(s, fd) ==
    /\ Unchanged(s, close(s, fd))
    /\ Unchanged(s, read(s, fd, ReadBuf(1), <<0>>))
    /\ Unchanged(s, read(s, fd, ReadBuf(1), <<>>))
    /\ Unchanged(s, write(s, fd, <<1>>, <<0>>))
    /\ Unchanged(s, write(s, fd, <<1>>, <<>>))
    /\ Unchanged(s, ftruncate(s, fd, 0))

FailedCallsKeep ==
    /\ \A p \in OpsPaths \cup {PathEmpty} : FailedPathCallsKeep(Cur, p)
    /\ \A p, q \in OpsPaths \cup {PathEmpty} : FailedPairCallsKeep(Cur, p, q)
    /\ \A fd \in SomeIds : FailedFdCallsKeep(Cur, fd)

FailedStepKeeps ==
    last'.err \in Errnos => UNCHANGED <<inodeObj, entryObj, fds, inodes>>

C23_FailureAtomic == []FailedCallsKeep /\ [][FailedStepKeeps]_vars

(* A rename of the directory '/a/b' over its non-empty parent '/a' has     *)
(* just failed with ENOTEMPTY.                                             *)
C23_Witness ==
    /\ last.op = "rename" /\ last.err = "ENOTEMPTY"
    /\ lookup(Cur, PathAB).err = OK

----------------------------------------------------------------------------
(* C24 -- the name space is a tree.  In every reachable state: every entry *)
(* held in the child list of some directory (created, and not removed by   *)
(* unlink, rmdir or a rename over it) is held by exactly one directory,    *)
(* once, and is reached from the root; and no directory is among its own   *)
(* descendants.                                                            *)
Directories(s) == {e \in 1..Len(s.E) : isDirectory(s, e)}

Parents(s, e) == {d \in Directories(s) : e \in children(s, d)}

Held(s) == UNION {children(s, d) : d \in Directories(s)}

Occurrences(s, d, e) ==
    LET es == s.I[s.E[d].inode].entries
    IN Cardinality({k \in 1..Len(es) : es[k] = e})

IsTree(s) ==
    /\ \A e \in Held(s) :
           /\ Cardinality(Parents(s, e)) = 1
           /\ \A d \in Parents(s, e) : Occurrences(s, d, e) = 1
           /\ e \in TreeEntries(s)
    /\ \A d \in Directories(s) : d \notin reach(s, children(s, d))

C24_Tree == IsTree(Cur)

----------------------------------------------------------------------------
(* C25 -- one type bit, kept by chmod.  In every reachable state every     *)
(* inode has exactly one of the bits S_IFDIR and S_IFREG in its mode; and  *)
(* for every path that resolves and every mode word, with or without type  *)
(* bits, isDirectory and isFile of the entry are the same after            *)
(* chmod(path, mode) as before.                                            *)
OneTypeBit(s) ==
    \A i \in 1..Len(s.I) :
        ("S_IFDIR" \in s.I[i].mode) # ("S_IFREG" \in s.I[i].mode)

ChmodKeepsType(s, p, m) ==
    LET e == lookup(s, p).e
        r == chmod(s, p, m)
    IN lookup(s, p).err = OK =>
          /\ r.err = OK
          /\ isDirectory(r.s, e) = isDirectory(s, e)
          /\ isFile(r.s, e) = isFile(s, e)

C25_TypeBits ==
    /\ OneTypeBit(Cur)
    /\ \A p \in {PathA, PathB, PathRoot}, m \in Modes :
           ChmodKeepsType(Cur, p, m)

====
